---- MODULE Spec2Model ----
(***************************************************************************)
(* vidl: worker pool, download runs, the video status machine, the         *)
(* paginated channel source and the channel sync, as state machines.       *)
(*                                                                         *)
(* Spec      the worker pool executing Download items against the store    *)
(* SpecIter  one sequence returned by YoutubeQuery::videos()               *)
(* SpecSync  Channel::update run by the workers against the store          *)
(* SpecBusy  the pool with more download requests than workers             *)
(* SpecAdd   Channel::add_video on any table                               *)
(* SpecReq   the fetches of one YoutubeQuery: rate limiter, request_data   *)
(* SpecWindow  Channel::last_n_video_urls on any table                     *)
(* SpecMig   Migrator::to_version and Migrator::upgrade                    *)
(* SpecDelete  Channel::delete on any table                                *)
(* SpecWeb   the pool of the web server, never stopped, under fairness     *)
(* SpecStatus  statuses written to and read from the status column         *)
(*                                                                         *)
(* Storage statements (one SQL statement each) and one call of the         *)
(* sequence's next() are the atomic steps.  A storage statement fails only *)
(* for the reasons the schema gives (a UNIQUE violation); panics inside an *)
(* item are not modelled.                                                  *)
(***************************************************************************)
EXTENDS Integers, Sequences, FiniteSets, TLC

(***************************************************************************)
(* Bounds of the model                                                     *)
(***************************************************************************)
NumVideos == 1
MaxItems == 2
MaxPages == 2
MaxPageLen == 3
MaxListing == 3
MaxCalls == 6
MaxNow == 61
MaxRows == 3
MaxBusy == 5
MaxFetches == 11
MaxVersion == 3
MaxMigCalls == 3

(***************************************************************************)
(* Program constants                                                       *)
(***************************************************************************)
num_workers == 4
update_interval == 60
window == 200
rate_cells == 10
meta_backoff == 1
page_backoff == 10
max_tries == 3

Workers == 0 .. (num_workers - 1)
Videos == 1 .. NumVideos
ItemIds == 1 .. MaxItems
Channels == {1}
NULL == -1

(***************************************************************************)
(* common.rs: VideoStatus and its storage codes                            *)
(***************************************************************************)
VideoStatus == {"New", "Queued", "Downloading", "Grabbed", "GrabError", "Ignore"}

\* codes that give GrabError the code of Grabbed
as_str_Clash(s) ==
    CASE s = "New" -> "NE"
      [] s = "Queued" -> "QU"
      [] s = "Downloading" -> "DL"
      [] s = "Grabbed" -> "GR"
      [] s = "GrabError" -> "GR"
      [] s = "Ignore" -> "IG"

as_str(s) ==
    CASE s = "New" -> "NE"
      [] s = "Queued" -> "QU"
      [] s = "Downloading" -> "DL"
      [] s = "Grabbed" -> "GR"
      [] s = "GrabError" -> "GE"
      [] s = "Ignore" -> "IG"

\* "Err" stands for Err(anyhow!("Unknown status string"))
from_str(c) ==
    CASE c = "NE" -> "New"
      [] c = "QU" -> "Queued"
      [] c = "DL" -> "Downloading"
      [] c = "GR" -> "Grabbed"
      [] c = "GE" -> "GrabError"
      [] c = "IG" -> "Ignore"
      [] OTHER -> "Err"

\* the storage codes
Codes == {as_str(s) : s \in VideoStatus}

\* texts a status column can hold: the six codes, and texts that are no code
OtherTexts == {"", "ne", "Ne", "NEW", "New", "XX", "NE "}
Texts == Codes \cup OtherTexts

\* db.rs FromSql for VideoStatus, column_result: the column's text through
\* from_str; "Err" stands for FromSqlError (InvalidStatusInDB)
column_result(raw) == from_str(raw)

\* the rows whose status is written and read back; nothing written or read yet
StatusRows == 1 .. (NumVideos + 1)
NoStatusCall == [written |-> "none", read |-> "none"]

VARIABLES
    queue,          \* the mpsc channel: work items sent and not yet received
    pool,           \* "running" | "joining" (Drop is in pool.join()) | "stopped"
    wpc,            \* each worker's position in Worker::run
    wit,            \* the item a worker holds
    wdl,            \* the result of download() a worker holds
    nextId,         \* the next work item's number (history)
    ilog,           \* per work item: what its execution did (history)
    errs,           \* how many executions returned Err (history)
    lastMark,       \* per video: the item enqueued by the last download request (history)
    video,          \* table video: the rows in rowid order
    last_update,    \* column last_update of table channel (minutes, or NULL)
    service,        \* column service of table channel
    title,          \* columns title and thumbnail of table channel
    now,            \* the wall clock (minutes)
    pages,          \* the remote listing of the channel, page by page
    wsync,          \* the locals of Channel::update a worker holds
    it,             \* the state captured by one sequence of videos()
    out,            \* what the calls of its next() returned (history)
    reqlog,         \* the page requests it made (history)
    rq,             \* one YoutubeQuery: its rate limiter and the fetch it is in
    win,            \* the last call of last_n_video_urls and what it returned
    mig,            \* the Migrator, table vidl_migration and the migrations run
    channel,        \* table channel: the rows by id
    del,            \* per channel: where a call of Channel::delete is
    rt              \* per row: the status last written and what was read back

poolVars == <<queue, pool, wpc, wit, wdl, nextId, ilog, errs, lastMark>>
syncVars == <<last_update, service, title, now, pages, wsync>>
iterVars == <<it, out, reqlog, rq, win, mig, channel, del, rt>>
vars == <<queue, pool, wpc, wit, wdl, nextId, ilog, errs, lastMark, video,
          last_update, service, title, now, pages, wsync, it, out, reqlog, rq,
          win, mig, channel, del, rt>>

(***************************************************************************)
(* source/invidious.rs: the URL get_page gives a video                     *)
(***************************************************************************)
Url(video_id) == <<"http://youtube.com/watch?v=", video_id>>

(***************************************************************************)
(* worker.rs: WorkItem                                                     *)
(***************************************************************************)
Download(id, vid, snap) ==
    [kind |-> "Download", id |-> id, vid |-> vid, snap |-> snap,
     chan |-> 0, force |-> FALSE, full_update |-> FALSE]
Update(id, chan, force, full_update) ==
    [kind |-> "Update", id |-> id, vid |-> 0, snap |-> "none",
     chan |-> chan, force |-> force, full_update |-> full_update]
Shutdown ==
    [kind |-> "Shutdown", id |-> 0, vid |-> 0, snap |-> "none",
     chan |-> 0, force |-> FALSE, full_update |-> FALSE]
NoItem ==
    [kind |-> "None", id |-> 0, vid |-> 0, snap |-> "none",
     chan |-> 0, force |-> FALSE, full_update |-> FALSE]

\* History of one work item.
\*   vid      the video of a Download item
\*   with     the Download items of the same video in the queue when it was sent
\*   recv     how many times a worker received it
\*   inv      how many times its execution called download()
\*   done     how many executions of it have returned
\*   sync     of an Update item that has returned: whether Channel::update
\*            was called (ran), how get_metadata ended ("none" when it was
\*            not called, "ok", "err"), and what the walk and the inserts did
NoSync == [ran |-> FALSE, meta |-> "none", full_update |-> FALSE, walked |-> FALSE,
           seen |-> {}, ins |-> <<>>, rej |-> 0, reqs |-> 0]
NoLog == [vid |-> 0, with |-> {}, recv |-> 0, inv |-> 0, done |-> 0, sync |-> NoSync]

Sent == 1 .. (nextId - 1)

RECURSIVE SeqOfSet(_)
SeqOfSet(S) ==
    IF S = {} THEN <<>>
    ELSE LET m == CHOOSE x \in S : \A y \in S : y <= x
         IN  <<m>> \o SeqOfSet(S \ {m})

InQueue(vid) == {queue[i].id : i \in {j \in DOMAIN queue :
                    queue[j].kind = "Download" /\ queue[j].vid = vid}}

(***************************************************************************)
(* db_migration.rs / db.rs: table video and DBVideoInfo                    *)
(***************************************************************************)
Row(chan, video_id, published_at, status) ==
    [channel |-> chan, video_id |-> video_id, url |-> Url(video_id),
     published_at |-> published_at, status |-> as_str(status)]

\* get_by_sqlid: the row, its status column read back through FromSql
get_by_sqlid(id) == [id |-> id, url |-> video[id].url, status |-> from_str(video[id].status)]

\* set_status: an unconditional UPDATE of the row's status
set_status(id, status) == [video EXCEPT ![id].status = as_str(status)]

(***************************************************************************)
(* source/invidious.rs: the remote listing and YoutubeQuery::videos        *)
(***************************************************************************)
\* A VideoInfo as get_page builds it.  The listing is newest first: the
\* videos of a listing of n videos are n, n-1, .., 1, published in that order.
VideoInfo(video_id) == [id |-> video_id, url |-> Url(video_id), published_at |-> video_id]

\* YtVideoPage: the videos of a page and its continuation.  Tokens are page
\* numbers: 0 is no token, k is the token that asks for page k.
Page(videos, continuation) == [videos |-> videos, continuation |-> continuation]

\* The listing with pages of the given lengths, each page but the last
\* carrying the token of the next
RECURSIVE MkPages(_, _, _)
MkPages(lens, k, newest) ==
    IF k > Len(lens) THEN <<>>
    ELSE <<Page([i \in 1 .. lens[k] |-> VideoInfo(newest - i + 1)],
                IF k < Len(lens) THEN k + 1 ELSE 0)>>
         \o MkPages(lens, k + 1, newest - lens[k])

RECURSIVE SumSeq(_)
SumSeq(s) == IF s = <<>> THEN 0 ELSE Head(s) + SumSeq(Tail(s))

\* the listings of at most MaxPages pages and MaxListing videos
Sources ==
    {MkPages(lens, 1, SumSeq(lens)) :
        lens \in {l \in UNION {[1 .. n -> 0 .. MaxPageLen] : n \in 1 .. MaxPages} :
                    SumSeq(l) <= MaxListing}}

\* The page that signals the end of a listing: the first that is empty or
\* carries no token
EndPage(ps) ==
    CHOOSE e \in DOMAIN ps :
        /\ ps[e].videos = <<>> \/ ps[e].continuation = 0
        /\ \A k \in 1 .. (e - 1) : ps[k].videos # <<>> /\ ps[k].continuation # 0

RECURSIVE Concat(_, _)
Concat(ps, e) == IF e = 0 THEN <<>> ELSE Concat(ps, e - 1) \o ps[e].videos

\* The videos of a listing up to its end, in order
Listing(ps) == Concat(ps, EndPage(ps))

\* the page that holds position k of the listing
RECURSIVE PageOf(_, _, _)
PageOf(ps, k, p) == IF k <= Len(ps[p].videos) THEN p ELSE PageOf(ps, k - Len(ps[p].videos), p + 1)

\* get_page: one request_data for the token; it fails, or gives the page's
\* videos and continuation
get_page(continuation, fail) ==
    IF fail THEN [tag |-> "Err", videos |-> <<>>, continuation |-> 0]
    ELSE LET data == pages[IF continuation = 0 THEN 1 ELSE continuation]
         IN  [tag |-> "Ok", videos |-> data.videos, continuation |-> data.continuation]

\* videos(): cont_token, completed, current_items as first captured
NewIter == [cont_token |-> 0, completed |-> FALSE, current_items |-> <<>>]

NoVideo == VideoInfo(0)
YieldOk(v) == [tag |-> "Ok", v |-> v]
YieldErr == [tag |-> "Err", v |-> NoVideo]
YieldNone == [tag |-> "None", v |-> NoVideo]

\* an error branch that leaves the sequence open
OnError_KeepGoing(i) == i

\* the Err branch: "Error state, prevent future iteration"
OnError(i) == [i EXCEPT !.completed = TRUE]

\* the Ok branch: a page without continuation completes the sequence,
\* otherwise its token is kept for the next request
OnPage(i, ct) ==
    IF ct = 0 THEN [i EXCEPT !.completed = TRUE] ELSE [i EXCEPT !.cont_token = ct]

\* One call of the closure of videos().  fail says whether the page request,
\* if one is made, fails.  Gives the captured state after the call, what the
\* call returns and whether it made a request.
videos_next(i, fail) ==
    IF i.completed
    THEN [it |-> i, yield |-> YieldNone, req |-> FALSE]
    ELSE IF i.current_items # <<>>
    THEN [it |-> [i EXCEPT !.current_items = Tail(@)],
          yield |-> YieldOk(Head(i.current_items)), req |-> FALSE]
    ELSE LET data == get_page(i.cont_token, fail)
         IN  IF data.tag = "Err"
             THEN [it |-> OnError(i), yield |-> YieldErr, req |-> TRUE]
             ELSE LET j == OnPage(i, data.continuation)
                      items == j.current_items \o data.videos
                  IN  IF Len(data.videos) = 0
                      THEN [it |-> j, yield |-> YieldNone, req |-> TRUE]
                      ELSE [it |-> [j EXCEPT !.current_items = Tail(items)],
                            yield |-> YieldOk(Head(items)), req |-> TRUE]

(***************************************************************************)
(* worker.rs: WorkerPool                                                   *)
(***************************************************************************)
RECURSIVE Sentinels(_)
Sentinels(n) == IF n = 0 THEN <<>> ELSE <<Shutdown>> \o Sentinels(n - 1)

\* a Drop whose loop sends one Shutdown too few
DropSends_OneShort == queue \o Sentinels(num_workers - 1)

\* Drop for WorkerPool, up to pool.join(): one Shutdown per worker
DropSends == queue \o Sentinels(num_workers)

\* a Drop that does not wait for the workers
JoinReturns_NoWait == TRUE

\* pool.join() returns when every worker's run() has returned
JoinReturns == \A w \in Workers : wpc[w] = "exited"

\* WorkerPool::start: the workers wait on the receiver of an empty channel
InitPool ==
    /\ queue = <<>>
    /\ pool = "running"
    /\ wpc = [w \in Workers |-> "recv"]
    /\ wit = [w \in Workers |-> NoItem]
    /\ wdl = [w \in Workers |-> "none"]
    /\ nextId = 1
    /\ ilog = [i \in ItemIds |-> NoLog]
    /\ errs = 0
    /\ lastMark = [v \in Videos |-> 0]

\* Service; what table channel holds of the metadata when the channel was
\* added, and what get_metadata gives now
Service == {"Youtube", "Vimeo"}
StoredMeta == "as added"
RemoteMeta == "as served"

\* Channel::update has no locals outside a run
NoLocals ==
    [now |-> NULL, seen_videos |-> {}, new_videos |-> <<>>, walked |-> FALSE,
     ins |-> <<>>, rej |-> 0, reqs |-> 0]

\* no sync is running and the channel was never updated
InitSync ==
    /\ last_update = [c \in Channels |-> NULL]
    /\ title = [c \in Channels |-> StoredMeta]
    /\ now = 0
    /\ wsync = [w \in Workers |-> NoLocals]

(***************************************************************************)
(* source/invidious.rs: YoutubeQuery's rate limiter and request_data       *)
(***************************************************************************)
\* YoutubeQuery::new: a limiter with all its cells free; no fetch yet.
\*   budget   the cells the limiter has free
\*   pc       "idle" | "check" | "request" | "done": where the fetch is
\*   kind     "metadata" (get_metadata) | "page" (the closure of videos())
\*   nfetch   how many fetches were started (history)
\*   limited  whether check() of this fetch returned Err
\*   granted  the cells check() of this fetch took
\*   slept    the seconds this fetch slept
\*   tries    the local of request_data
\*   sent     the requests this fetch sent (history)
\*   last     how the last request sent ended
\*   ret      what request_data returned
NewQuery ==
    [budget |-> rate_cells, pc |-> "idle", kind |-> "none", nfetch |-> 0,
     limited |-> FALSE, granted |-> 0, slept |-> 0,
     tries |-> 0, sent |-> 0, last |-> "none", ret |-> "none"]

\* rate_limit.check(): takes a cell if one is free, Err otherwise
rate_limit_check(budget) ==
    IF budget > 0 THEN [ok |-> TRUE, budget |-> budget - 1]
    ELSE [ok |-> FALSE, budget |-> budget]

\* an Err arm of check() that does not sleep
Backoff_None(kind) == 0

\* the Err arm of check(): thread::sleep of 1 s in get_metadata, of 10 s in
\* the closure of videos()
Backoff(kind) == IF kind = "metadata" THEN meta_backoff ELSE page_backoff

\* request_data, one turn of its loop after subreq ended ok or not: what the
\* loop breaks with ("none": it goes round again) and tries
request_data_turn(tries, ok) ==
    IF ok THEN [ret |-> "Ok", tries |-> tries]
    ELSE IF tries > max_tries THEN [ret |-> "Err", tries |-> tries]
    ELSE [ret |-> "none", tries |-> tries + 1]

(***************************************************************************)
(* libmig.rs: Migrator                                                     *)
(***************************************************************************)
\* A Migrator whose migrations have the versions migs, on a database whose
\* stored version is version (NULL: no row "current_version").
\*   applied  the versions of the migrations whose up() ran, in order (history)
\*   ncalls   the calls of to_version and upgrade made (history)
\*   op, target, cur, ret   the last call, the version it found, its result
NewMigrator(migs, version) ==
    [migs |-> migs, version |-> version, applied |-> <<>>, ncalls |-> 0,
     op |-> "none", target |-> 0, cur |-> NULL, ret |-> "none"]

\* get_latest_version: the greatest version of the migrations
get_latest_version(migs) == CHOOSE v \in migs : \A u \in migs : u <= v

\* sort_by_cached_key(get_version): the versions in ascending order
RECURSIVE sorted(_)
sorted(migs) ==
    IF migs = {} THEN <<>>
    ELSE LET m == CHOOSE v \in migs : \A u \in migs : v <= u
         IN  <<m>> \o sorted(migs \ {m})

\* a to_version without the test
Backwards_Never(cur, target) == FALSE

\* the test of to_version: "Cannot migrate backwards"
Backwards(cur, target) == cur # NULL /\ cur > target

\* the predicate of skip_while: version <= cur_ver.unwrap_or(i64::MIN); the
\* versions of the migrations are all above i64::MIN
AtOrBelow(v, cur) == cur # NULL /\ v <= cur

RECURSIVE skip_while(_, _)
skip_while(s, cur) ==
    IF s # <<>> /\ AtOrBelow(Head(s), cur) THEN skip_while(Tail(s), cur) ELSE s

RECURSIVE take_while(_, _)
take_while(s, target) ==
    IF s # <<>> /\ Head(s) <= target
    THEN <<Head(s)>> \o take_while(Tail(s), target) ELSE <<>>

\* a selection that does not skip what the stored version covers
to_perform_NoSkip(migs, cur, target) == take_while(sorted(migs), target)

\* to_perform: sorted, skip_while at or below the stored version, take_while
\* at or below the target
to_perform(migs, cur, target) == take_while(skip_while(sorted(migs), cur), target)

\* to_version(target), called as op.  failAt is the migration of to_perform
\* whose up() fails (0: none does): the loop runs up() and set_db_version
\* for those before it and returns the Err.
to_version_run(m, op, target, failAt) ==
    LET cur == m.version
        call == [m EXCEPT !.ncalls = @ + 1, !.op = op, !.target = target, !.cur = cur]
        tp == to_perform(m.migs, cur, target)
        done == IF failAt = 0 \/ failAt > Len(tp) THEN tp ELSE SubSeq(tp, 1, failAt - 1)
    IN  IF Backwards(cur, target)
        THEN [call EXCEPT !.ret = "Err"]
        ELSE [call EXCEPT
                !.applied = @ \o done,
                !.version = IF done = <<>> THEN @ ELSE done[Len(done)],
                !.ret = IF Len(done) < Len(tp) THEN "Err" ELSE "Ok"]

\* upgrade(): Err when the stored version is the latest or above it,
\* otherwise to_version(latest)
upgrade_run(m, failAt) ==
    LET latest == get_latest_version(m.migs)
    IN  IF m.version # NULL /\ (m.version = latest \/ m.version > latest)
        THEN [m EXCEPT !.ncalls = @ + 1, !.op = "upgrade", !.target = latest,
                       !.cur = m.version, !.ret = "Err"]
        ELSE to_version_run(m, "upgrade", latest, failAt)

(***************************************************************************)
(* db.rs: Channel::delete                                                  *)
(***************************************************************************)
\* a row of table channel as Channel::create stores it
ChannelRow(c) == [id |-> c, title |-> StoredMeta, last_update |-> NULL]

\* delete has not been called for the channel.
\*   pc       "none" | "videos" (its videos are deleted) | "done"
\*   removed  how many rows of table video the call deleted (history)
NoDelete == [pc |-> "none", removed |-> 0]

\* a DELETE FROM video without the WHERE
delete_from_video_All(c) == <<>>

\* DELETE FROM video WHERE channel=?1
delete_from_video(c) == SelectSeq(video, LAMBDA r : r.channel # c)

\* DELETE FROM channel WHERE id=?1
delete_from_channel(c) == [d \in DOMAIN channel \ {c} |-> channel[d]]

\* last_n_video_urls has not been called
NoWindow == [chan |-> 0, num |-> 0, urls |-> {}]

\* no sequence of videos() is being read outside Channel::update
InitIter ==
    /\ it = NewIter
    /\ out = <<>>
    /\ reqlog = <<>>
    /\ rq = NewQuery
    /\ win = NoWindow
    /\ mig = NewMigrator(1 .. MaxVersion, NULL)
    /\ channel = [c \in Channels |-> ChannelRow(c)]
    /\ del = [c \in Channels |-> NoDelete]
    /\ rt = [v \in StatusRows |-> NoStatusCall]

\* the store holds the videos of one channel, each New or already Queued
Init ==
    /\ InitPool
    /\ InitSync
    /\ InitIter
    /\ service = [c \in Channels |-> "Youtube"]
    /\ pages = <<Page(<<>>, 0)>>
    /\ \E st \in [Videos -> {"New", "Queued"}] :
            video = [v \in Videos |-> Row(1, v, v, st[v])]

\* a channel of bounded capacity (mpsc::sync_channel): send waits while it
\* is full
CanSend_Bounded == Len(queue) < num_workers

\* WorkerPool::enqueue, sender.send(item).unwrap(): the channel of
\* mpsc::channel() is unbounded, send never waits and fails only when the
\* Receiver is gone, which the workers hold until they return from run()
CanSend == \E w \in Workers : wpc[w] # "exited"

\* a handler that enqueues the video without marking it Queued
page_download_video_NoMark(v) ==
    /\ pool = "running"
    /\ nextId \in DOMAIN ilog
    /\ CanSend
    /\ queue' = Append(queue, Download(nextId, v, get_by_sqlid(v).status))
    /\ ilog' = [ilog EXCEPT ![nextId] = [NoLog EXCEPT !.vid = v, !.with = InQueue(v)]]
    /\ lastMark' = [lastMark EXCEPT ![v] = nextId]
    /\ nextId' = nextId + 1
    /\ UNCHANGED <<pool, wpc, wit, wdl, errs, video>>
    /\ UNCHANGED <<syncVars, iterVars>>

\* web.rs page_download_video: read the row, mark it Queued, enqueue the
\* snapshot read before the mark (set_status does not update self.status)
page_download_video(v) ==
    /\ pool = "running"
    /\ nextId \in DOMAIN ilog
    /\ CanSend
    /\ LET snap == get_by_sqlid(v)
       IN  /\ video' = set_status(v, "Queued")
           /\ queue' = Append(queue, Download(nextId, v, snap.status))
           /\ ilog' = [ilog EXCEPT ![nextId] = [NoLog EXCEPT !.vid = v, !.with = InQueue(v)]]
    /\ lastMark' = [lastMark EXCEPT ![v] = nextId]
    /\ nextId' = nextId + 1
    /\ UNCHANGED <<pool, wpc, wit, wdl, errs>>
    /\ UNCHANGED <<syncVars, iterVars>>

\* web.rs page_ignore_video
page_ignore_video(v) ==
    /\ video' = set_status(v, "Ignore")
    /\ UNCHANGED poolVars
    /\ UNCHANGED <<syncVars, iterVars>>

\* worker.rs main: a fresh pool is sent every video stored as Queued, then
\* dropped (the sentinels are sent and join() begins)
worker_main ==
    /\ pool = "running"
    /\ nextId = 1
    /\ LET queued == SeqOfSet({v \in Videos : get_by_sqlid(v).status = "Queued"})
           n == Len(queued)
       IN  /\ n <= MaxItems
           /\ queue' = [i \in 1 .. n |-> Download(i, queued[i], "Queued")]
                        \o Sentinels(num_workers)
           /\ ilog' = [i \in ItemIds |->
                        IF i <= n THEN [NoLog EXCEPT !.vid = queued[i]] ELSE NoLog]
           /\ nextId' = n + 1
    /\ pool' = "joining"
    /\ UNCHANGED <<wpc, wit, wdl, errs, lastMark, video>>
    /\ UNCHANGED <<syncVars, iterVars>>

\* WorkerPool::stop / Drop: send the sentinels; join() then blocks
stop ==
    /\ pool = "running"
    /\ queue' = DropSends
    /\ pool' = "joining"
    /\ UNCHANGED <<wpc, wit, wdl, nextId, ilog, errs, lastMark, video>>
    /\ UNCHANGED <<syncVars, iterVars>>

\* Drop returns once join() does
stop_returns ==
    /\ pool = "joining"
    /\ JoinReturns
    /\ pool' = "stopped"
    /\ UNCHANGED <<queue, wpc, wit, wdl, nextId, ilog, errs, lastMark, video>>
    /\ UNCHANGED <<syncVars, iterVars>>

(***************************************************************************)
(* worker.rs: Worker::run and worker_download                              *)
(***************************************************************************)
\* The workers blocked on the receiver are interchangeable (num is only
\* logged): the one with the least num stands for whichever the Mutex admits.
\* a worker that keeps the receiver locked while it executes the item
Admitted_HoldsLock(w) ==
    /\ wpc[w] = "recv"
    /\ \A u \in Workers : wpc[u] \in {"recv", "exited"} /\ (wpc[u] = "recv" => w <= u)

\* a worker that goes back to the receiver while it executes an item
Admitted_Busy(w) == wpc[w] # "exited" /\ \A u \in Workers : wpc[u] # "exited" => w <= u

Admitted(w) == wpc[w] = "recv" /\ \A u \in Workers : wpc[u] = "recv" => w <= u

\* a receiver that hands out the item sent last
Received_Newest == queue[Len(queue)]

\* the receiver: the head of the channel is taken and removed
Received == Head(queue)
Remaining == Tail(queue)

\* a run() that returns when an item's execution returns Err
Finish_ExitOnErr(w, r, s) ==
    /\ ilog' = [ilog EXCEPT ![wit[w].id].done = @ + 1, ![wit[w].id].sync = s]
    /\ errs' = IF r = "err" THEN errs + 1 ELSE errs
    /\ wpc' = [wpc EXCEPT ![w] = IF r = "err" THEN "exited" ELSE "recv"]
    /\ wit' = [wit EXCEPT ![w] = NoItem]
    /\ wdl' = [wdl EXCEPT ![w] = "none"]

\* the item's execution has returned r ("ok" | "err"); Worker::run logs an
\* Err and loops to recv()
Finish(w, r, s) ==
    /\ ilog' = [ilog EXCEPT ![wit[w].id].done = @ + 1, ![wit[w].id].sync = s]
    /\ errs' = IF r = "err" THEN errs + 1 ELSE errs
    /\ wpc' = [wpc EXCEPT ![w] = "recv"]
    /\ wit' = [wit EXCEPT ![w] = NoItem]
    /\ wdl' = [wdl EXCEPT ![w] = "none"]

\* lock the receiver, recv(), match the item
run_recv(w) ==
    /\ Admitted(w)
    /\ queue # <<>>
    /\ queue' = Remaining
    /\ IF Received.kind = "Shutdown"
       THEN /\ wpc' = [wpc EXCEPT ![w] = "exited"]
            /\ UNCHANGED <<wit, ilog>>
       ELSE /\ wpc' = [wpc EXCEPT ![w] = IF Received.kind = "Download"
                                             THEN "dl_get" ELSE "up_check"]
            /\ wit' = [wit EXCEPT ![w] = Received]
            /\ ilog' = [ilog EXCEPT ![Received.id].recv = @ + 1]
    /\ UNCHANGED <<pool, wdl, nextId, errs, lastMark, video>>
    /\ UNCHANGED <<syncVars, iterVars>>

\* a guard that trusts the snapshot carried in the work item
CurrentStatus_Snapshot(w) == wit[w].snap

\* the status worker_download decides on: re-read from storage
CurrentStatus(w) == get_by_sqlid(wit[w].vid).status

\* worker_download: re-read the video; return Ok unless it is still Queued
dl_get(w) ==
    /\ wpc[w] = "dl_get"
    /\ IF CurrentStatus(w) # "Queued"
       THEN Finish(w, "ok", NoSync)
       ELSE /\ wpc' = [wpc EXCEPT ![w] = "dl_mark"]
            /\ UNCHANGED <<wit, wdl, ilog, errs>>
    /\ UNCHANGED <<queue, pool, nextId, lastMark, video>>
    /\ UNCHANGED <<syncVars, iterVars>>

\* worker_download: mark as downloading
dl_mark(w) ==
    /\ wpc[w] = "dl_mark"
    /\ video' = set_status(wit[w].vid, "Downloading")
    /\ wpc' = [wpc EXCEPT ![w] = "dl_run"]
    /\ UNCHANGED <<queue, pool, wit, wdl, nextId, ilog, errs, lastMark>>
    /\ UNCHANGED <<syncVars, iterVars>>

\* worker_download: download::download runs youtube-dl and succeeds or fails
dl_run(w) ==
    /\ wpc[w] = "dl_run"
    /\ \E r \in {"ok", "err"} : wdl' = [wdl EXCEPT ![w] = r]
    /\ ilog' = [ilog EXCEPT ![wit[w].id].inv = @ + 1]
    /\ wpc' = [wpc EXCEPT ![w] = "dl_set"]
    /\ UNCHANGED <<queue, pool, wit, nextId, errs, lastMark, video>>
    /\ UNCHANGED <<syncVars, iterVars>>

\* an outcome that records every run as Grabbed
Outcome_AlwaysGrabbed(dl) == "Grabbed"

\* the status worker_download records for a result of download()
Outcome(dl) == IF dl = "ok" THEN "Grabbed" ELSE "GrabError"

\* worker_download: record the outcome and return Ok
dl_set(w) ==
    /\ wpc[w] = "dl_set"
    /\ video' = set_status(wit[w].vid, Outcome(wdl[w]))
    /\ Finish(w, "ok", NoSync)
    /\ UNCHANGED <<queue, pool, nextId, lastMark>>
    /\ UNCHANGED <<syncVars, iterVars>>

Next ==
    \/ \E v \in Videos : page_download_video(v)
    \/ \E v \in Videos : page_ignore_video(v)
    \/ worker_main
    \/ stop
    \/ stop_returns
    \/ \E w \in Workers : run_recv(w)
    \/ \E w \in Workers : dl_get(w)
    \/ \E w \in Workers : dl_mark(w)
    \/ \E w \in Workers : dl_run(w)
    \/ \E w \in Workers : dl_set(w)

Spec == Init /\ [][Next]_vars

\* The threads of the pool are scheduled: a worker that can receive does, a
\* worker inside worker_download takes its next step (download() returns),
\* and a join() that can return does.
Scheduling ==
    /\ WF_vars(\E w \in Workers : run_recv(w))
    /\ \A w \in Workers :
        WF_vars(dl_get(w) \/ dl_mark(w) \/ dl_run(w) \/ dl_set(w))
    /\ WF_vars(stop_returns)

SpecLive == Spec /\ Scheduling

(***************************************************************************)
(* Properties of the worker pool and of download runs (Spec)               *)
(***************************************************************************)

\* C1 (drain guarantee): when stop() has returned, every work item sent
\* before it was received exactly once, by one worker, its execution has
\* returned exactly once, and nothing is left in the channel.
DrainGuarantee ==
    pool = "stopped" =>
        /\ queue = <<>>
        /\ \A i \in Sent : ilog[i].recv = 1 /\ ilog[i].done = 1

\* stop() has returned after two items were sent, one of which downloaded
DrainWitness ==
    /\ pool = "stopped"
    /\ nextId = 3
    /\ \E i \in Sent : ilog[i].inv = 1

\* C2 (download guard): a download run that re-reads a status other than
\* Queued returns at once: the step writes nothing to the store, the
\* worker is back at recv() and the item's execution never called
\* download().
DownloadGuard ==
    [][\A w \in Workers :
        (wpc[w] = "dl_get" /\ wpc'[w] # "dl_get"
            /\ get_by_sqlid(wit[w].vid).status # "Queued")
        => /\ video' = video
           /\ wpc'[w] = "recv"
           /\ ilog'[wit[w].id].inv = 0
           /\ ilog'[wit[w].id].done = 1]_vars

\* a Download item of a video stored as Ignore was executed as a no-op
DownloadGuardWitness ==
    \E i \in Sent :
        /\ ilog[i].done = 1
        /\ ilog[i].inv = 0
        /\ video[ilog[i].vid].status = "IG"

\* C3 (download outcome): a run that finds the video Queued goes on to
\* write Downloading; download() is called only from the position that
\* is entered by writing Downloading; and the step that ends the run
\* stores Grabbed when download() succeeded and GrabError when it failed,
\* and returns Ok (no execution is counted as an error).
DownloadOutcome ==
    [][\A w \in Workers :
        /\ (wpc[w] = "dl_get" /\ wpc'[w] # "dl_get"
                /\ get_by_sqlid(wit[w].vid).status = "Queued")
            => wpc'[w] = "dl_mark" /\ video' = video
        /\ (wpc[w] = "dl_mark" /\ wpc'[w] # "dl_mark")
            => wpc'[w] = "dl_run" /\ video'[wit[w].vid].status = "DL"
        /\ (wit[w].id \in ItemIds /\ ilog'[wit[w].id].inv # ilog[wit[w].id].inv)
            => wpc[w] = "dl_run" /\ wpc'[w] = "dl_set"
        /\ (wpc[w] = "dl_set" /\ wpc'[w] # "dl_set")
            => /\ wpc'[w] = "recv"
               /\ from_str(video'[wit[w].vid].status)
                    = (IF wdl[w] = "ok" THEN "Grabbed" ELSE "GrabError")
               /\ ilog'[wit[w].id].done = 1
               /\ errs' = errs]_vars

\* a run whose download() failed has returned and the video is GrabError
DownloadOutcomeWitness ==
    \E i \in Sent :
        /\ ilog[i].done = 1
        /\ ilog[i].inv = 1
        /\ video[ilog[i].vid].status = "GE"
        /\ errs = 0

\* the Shutdown items in the channel
SentinelsQueued == {i \in DOMAIN queue : queue[i].kind = "Shutdown"}

\* the workers whose run() has returned
Exited == {w \in Workers : wpc[w] = "exited"}

\* stop() has returned with the workers exited and the channel empty
Stopped == pool = "stopped" /\ Exited = Workers /\ queue = <<>>

\* C11  Shutdown protocol: no sentinel is sent before stop(); from stop()
\* on, the sentinels in the channel and the workers that have exited add up
\* to num_workers (exactly num_workers are sent and each worker takes
\* exactly one), no item is behind a sentinel, and, the workers being
\* scheduled and every item's execution terminating, stop() returns with
\* all workers exited and the channel empty.
ShutdownProtocol ==
    /\ [](pool = "running" => SentinelsQueued = {} /\ Exited = {})
    /\ [](pool # "running" =>
            /\ Cardinality(SentinelsQueued) + Cardinality(Exited) = num_workers
            /\ \A i \in SentinelsQueued : \A j \in DOMAIN queue :
                    queue[j].kind # "Shutdown" => j < i)
    /\ [](pool = "stopped" => Stopped)
    /\ (pool = "joining" ~> Stopped)

\* one item was sent, stop() was called and has returned with the item's
\* download run
ShutdownWitness ==
    /\ Stopped
    /\ nextId = 2
    /\ ilog[1].recv = 1
    /\ ilog[1].inv = 1

\* C12  FIFO dispatch: items are numbered in the order they were sent; an
\* item is received only after every item sent before it, the items in the
\* channel are in sending order, and a worker has received a Shutdown only
\* after every item was received.
FifoDispatch ==
    /\ \A i, j \in Sent : (i < j /\ ilog[j].recv > 0) => ilog[i].recv > 0
    /\ \A i, j \in DOMAIN queue :
            (i < j /\ queue[i].kind # "Shutdown" /\ queue[j].kind # "Shutdown")
            => queue[i].id < queue[j].id
    /\ Exited # {} => \A i \in Sent : ilog[i].recv > 0

\* the second item was sent while the first was still in the channel, and
\* both have been received
FifoDispatchWitness ==
    /\ nextId = 3
    /\ ilog[2].with = {1}
    /\ ilog[1].recv = 1
    /\ ilog[2].recv = 1

\* worker w holds a Download item of a video that was in GrabError when the
\* download was requested
Requeued(w) == wit[w].kind = "Download" /\ wit[w].snap = "GrabError"

\* C20  Re-queue after failure: a download request for a video in GrabError
\* stores Queued and sends a Download item for it; the run of that item, if
\* the video is still Queued when it reads the row, calls download() and
\* then stores Grabbed or GrabError; and, the workers being scheduled, every
\* such item in the channel is executed to its end.
RequeueAfterFailure ==
    /\ [][\A v \in Videos :
            (get_by_sqlid(v).status = "GrabError" /\ lastMark'[v] # lastMark[v])
            => /\ video'[v].status = as_str("Queued")
               /\ queue' = Append(queue, Download(nextId, v, "GrabError"))]_vars
    /\ [][\A w \in Workers :
            Requeued(w) =>
                /\ (wpc[w] = "dl_get" /\ wpc'[w] # "dl_get"
                        /\ get_by_sqlid(wit[w].vid).status = "Queued")
                    => wpc'[w] = "dl_mark"
                /\ (wpc[w] = "dl_mark" /\ wpc'[w] # "dl_mark")
                    => wpc'[w] = "dl_run"
                /\ (wpc[w] = "dl_run" /\ wpc'[w] # "dl_run")
                    => /\ wpc'[w] = "dl_set"
                       /\ ilog'[wit[w].id].inv = ilog[wit[w].id].inv + 1
                /\ (wpc[w] = "dl_set" /\ wpc'[w] # "dl_set")
                    => /\ video'[wit[w].vid].status
                            \in {as_str("Grabbed"), as_str("GrabError")}
                       /\ ilog'[wit[w].id].done = ilog[wit[w].id].done + 1]_vars
    /\ \A i \in ItemIds :
            (\E k \in DOMAIN queue : queue[k].id = i /\ queue[k].snap = "GrabError")
            ~> (ilog[i].done = 1)

\* a worker has called download() for a video re-queued from GrabError
RequeueAfterFailureWitness ==
    \E w \in Workers : Requeued(w) /\ wpc[w] = "dl_set" /\ ilog[wit[w].id].inv = 1

\* C4 (no duplicate download): of two Download items of one video that
\* were in the channel together, the later one sent by the last download
\* request for the video, at most one calls download().
NoDuplicateDownload ==
    \A j \in Sent : \A i \in ilog[j].with :
        lastMark[ilog[j].vid] = j => ~(ilog[i].inv >= 1 /\ ilog[j].inv >= 1)

\* the edges of the status lifecycle
LifecycleEdges ==
    {<<"New", "Queued">>, <<"Queued", "Downloading">>, <<"Downloading", "Grabbed">>,
     <<"Downloading", "GrabError">>, <<"GrabError", "Queued">>}
    \cup {<<s, "Ignore">> : s \in VideoStatus}

\* C9 (status lifecycle): every change of a stored status follows an edge
\* of the lifecycle graph.
StatusLifecycle ==
    [][\A v \in DOMAIN video :
        video'[v].status # video[v].status
        => <<from_str(video[v].status), from_str(video'[v].status)>> \in LifecycleEdges]_vars

\* C28  Ignore survives an in-flight download: when a download run
\* completes on a video that was marked Ignore while the run was executing
\* (the row reads Ignore as the run makes its final write), the video has
\* status Ignore after the run.
IgnoreSurvives ==
    [][\A w \in Workers :
        (/\ wpc[w] = "dl_set" /\ wpc'[w] = "recv"
         /\ get_by_sqlid(wit[w].vid).status = "Ignore")
        => from_str(video'[wit[w].vid].status) = "Ignore"]_vars

(***************************************************************************)
(* db.rs: table channel, add_video, last_n_video_urls                      *)
(***************************************************************************)
\* Channel::update_required: no last_update, or more than the interval ago
update_required(c) ==
    IF last_update[c] # NULL
    THEN now - last_update[c] > update_interval
    ELSE TRUE

\* an update that leaves the time of the attempt unrecorded
set_last_update_Skip(c, t) == last_update

\* Channel::set_last_update, the UPDATE: last_update = the time taken as now
set_last_update(c, t) == [last_update EXCEPT ![c] = t]

\* an INSERT that the table accepts whatever its url
add_video_NoUnique(c, v) ==
    [ok |-> TRUE, video |-> Append(video, Row(c, v.id, v.published_at, "New"))]

\* an INSERT OR REPLACE: a row that has the url is written anew
add_video_Replace(c, v) ==
    IF \E i \in DOMAIN video : video[i].url = v.url
    THEN [ok |-> TRUE,
          video |-> [i \in DOMAIN video |->
                        IF video[i].url = v.url
                        THEN Row(c, v.id, v.published_at, "New") ELSE video[i]]]
    ELSE [ok |-> TRUE, video |-> Append(video, Row(c, v.id, v.published_at, "New"))]

\* an INSERT that stores the status of a download request
add_video_Queued(c, v) ==
    IF \E i \in DOMAIN video : video[i].url = v.url
    THEN [ok |-> FALSE, video |-> video]
    ELSE [ok |-> TRUE, video |-> Append(video, Row(c, v.id, v.published_at, "Queued"))]

\* Channel::add_video: INSERT with status New; column url is UNIQUE, so the
\* statement fails and stores nothing when a row has the url
add_video(c, v) ==
    IF \E i \in DOMAIN video : video[i].url = v.url
    THEN [ok |-> FALSE, video |-> video]
    ELSE [ok |-> TRUE, video |-> Append(video, Row(c, v.id, v.published_at, "New"))]

\* a SELECT ordered by rowid: the rows inserted last
last_n_video_urls_ByRowid(c, num) ==
    LET rows == {i \in DOMAIN video : video[i].channel = c}
        before(i) == {j \in rows : j > i}
    IN  {video[i].url : i \in {k \in rows : Cardinality(before(k)) < num}}

\* Channel::last_n_video_urls: the urls of the num rows of the channel
\* published last
last_n_video_urls(c, num) ==
    LET rows == {i \in DOMAIN video : video[i].channel = c}
        before(i) == {j \in rows :
                        \/ video[j].published_at > video[i].published_at
                        \/ video[j].published_at = video[i].published_at /\ j < i}
    IN  {video[i].url : i \in {k \in rows : Cardinality(before(k)) < num}}

(***************************************************************************)
(* web.rs / cli.rs: the producers of Update items; the clock               *)
(***************************************************************************)
\* web.rs page_refresh: an Update item for the channel if it is due
page_refresh(c) ==
    /\ pool = "running"
    /\ nextId \in DOMAIN ilog
    /\ CanSend
    /\ IF update_required(c)
       THEN /\ queue' = Append(queue, Update(nextId, c, FALSE, FALSE))
            /\ nextId' = nextId + 1
       ELSE UNCHANGED <<queue, nextId>>
    /\ UNCHANGED <<pool, wpc, wit, wdl, ilog, errs, lastMark, video>>
    /\ UNCHANGED <<syncVars, iterVars>>

\* cli.rs update: an Update item with the command's flags if forced or due.
\* The pools of the processes that share the store are folded into one, so
\* the command's work.stop() is the action stop.
cli_update(c, force, full_update) ==
    /\ pool = "running"
    /\ nextId \in DOMAIN ilog
    /\ CanSend
    /\ IF force \/ update_required(c)
       THEN /\ queue' = Append(queue, Update(nextId, c, force, full_update))
            /\ nextId' = nextId + 1
       ELSE UNCHANGED <<queue, nextId>>
    /\ UNCHANGED <<pool, wpc, wit, wdl, ilog, errs, lastMark, video>>
    /\ UNCHANGED <<syncVars, iterVars>>

\* chrono::Utc::now() advances: by the interval, or by a minute more
tick ==
    /\ \E d \in {update_interval, update_interval + 1} :
        /\ now + d <= MaxNow
        /\ now' = now + d
    /\ UNCHANGED <<poolVars, video, last_update, service, title, pages, wsync, iterVars>>

(***************************************************************************)
(* worker.rs worker_update_check and db.rs Channel::update                 *)
(***************************************************************************)
\* a check that waits for a first update made elsewhere
time_to_update_NoFirst(c) ==
    IF last_update[c] # NULL
    THEN now - last_update[c] > update_interval
    ELSE FALSE

\* a check that takes the interval itself for elapsed
time_to_update_AtInterval(c) ==
    IF last_update[c] # NULL
    THEN now - last_update[c] >= update_interval
    ELSE TRUE

\* worker_update_check: time_to_update
time_to_update(c) ==
    IF last_update[c] # NULL
    THEN now - last_update[c] > update_interval
    ELSE TRUE

\* the force flag of an Update item skips the staleness check
forced(item) == item.force

\* the full_update flag of an Update item is the one Channel::update gets
full_update_arg(item) == item.full_update

\* read last_update; return Ok if it is not time to update
up_check(w) ==
    /\ wpc[w] = "up_check"
    /\ IF forced(wit[w]) \/ time_to_update(wit[w].chan)
       THEN /\ wpc' = [wpc EXCEPT ![w] = "up_now"]
            /\ UNCHANGED <<wit, wdl, ilog, errs>>
       ELSE Finish(w, "ok", NoSync)
    /\ UNCHANGED <<queue, pool, nextId, lastMark, video>>
    /\ UNCHANGED <<syncVars, iterVars>>

\* Channel::update calls set_last_update, which first takes the time:
\* "let now = chrono::Utc::now()"
up_now(w) ==
    /\ wpc[w] = "up_now"
    /\ wsync' = [wsync EXCEPT ![w].now = now]
    /\ wpc' = [wpc EXCEPT ![w] = "up_mark"]
    /\ UNCHANGED <<queue, pool, wit, wdl, nextId, ilog, errs, lastMark, video>>
    /\ UNCHANGED <<last_update, service, title, now, pages, iterVars>>

\* set_last_update then writes it: "Set updated time now (even in case of
\* failure)"
up_mark(w) ==
    /\ wpc[w] = "up_mark"
    /\ last_update' = set_last_update(wit[w].chan, wsync[w].now)
    /\ wsync' = [wsync EXCEPT ![w] = NoLocals]
    /\ wpc' = [wpc EXCEPT ![w] = "up_fetch"]
    /\ UNCHANGED <<queue, pool, wit, wdl, nextId, ilog, errs, lastMark, video>>
    /\ UNCHANGED <<service, title, now, pages, iterVars>>

\* The loop "for v in api.videos()": v? returns the Err of the sequence,
\* a video of the window ends the loop unless full_update, any other video
\* is pushed.  failAt is the request that fails (0: none does); nreq counts
\* the requests made.
RECURSIVE Walk(_, _, _, _, _, _)
Walk(i, new_videos, nreq, seen_videos, full_update, failAt) ==
    LET r == videos_next(i, nreq + 1 = failAt)
        n == IF r.req THEN nreq + 1 ELSE nreq
    IN  IF r.yield.tag = "None"
        THEN [new_videos |-> new_videos, err |-> FALSE, reqs |-> n]
        ELSE IF r.yield.tag = "Err"
        THEN [new_videos |-> new_videos, err |-> TRUE, reqs |-> n]
        ELSE IF r.yield.v.url \in seen_videos /\ ~full_update
        THEN [new_videos |-> new_videos, err |-> FALSE, reqs |-> n]
        ELSE Walk(r.it, Append(new_videos, r.yield.v), n, seen_videos,
                  full_update, failAt)

\* what a returned Channel::update did, for the item's history
Summary(item, l) ==
    [ran |-> TRUE, meta |-> "ok", full_update |-> full_update_arg(item),
     walked |-> l.walked,
     seen |-> l.seen_videos,
     ins |-> l.ins, rej |-> l.rej, reqs |-> l.reqs]

\* Channel::update_metadata: title and thumbnail as fetched
update_metadata(c, meta) == [title EXCEPT ![c] = meta]

\* an Err of the sequence that ends the walk like its end
WalkErrResult_Ok == "ok"

\* "let v = v?" in the walk: the Err of the sequence is what update returns
WalkErrResult == "err"

\* a metadata error handed on to the worker
MetaErrResult_Propagate == "err"

\* the Err arm of "match meta": the error is logged and update returns Ok(())
MetaErrResult == "ok"

\* Channel::update from the choice of the api to the end of the walk.  A
\* Vimeo channel is ignored with Ok.  A metadata failure skips the channel
\* with Ok.  Otherwise the metadata is stored, the window is read and the
\* source is walked: the requests touch nothing shared and the two storage
\* statements are not separated by anything another worker could see, so
\* the whole is one step.
HasSource_Any(sv) == TRUE

\* The match that chooses the api: Youtube gets a YoutubeQuery, Vimeo has no
\* ChannelData implementation and makes Channel::update return Ok(()).
HasSource(sv) == sv = "Youtube"

up_fetch(w) ==
    /\ wpc[w] = "up_fetch"
    /\ \E meta_ok \in BOOLEAN, failAt \in 0 .. Len(pages) :
        IF ~HasSource(service[wit[w].chan])
        THEN /\ Finish(w, "ok", [NoSync EXCEPT !.ran = TRUE])
             /\ UNCHANGED <<wsync, title>>
        ELSE IF ~meta_ok
        THEN /\ Finish(w, MetaErrResult, [NoSync EXCEPT !.ran = TRUE, !.meta = "err"])
             /\ UNCHANGED <<wsync, title>>
        ELSE LET seen_videos == last_n_video_urls(wit[w].chan, window)
                 r == Walk(NewIter, <<>>, 0, seen_videos,
                           full_update_arg(wit[w]), failAt)
                 l == [now |-> NULL, seen_videos |-> seen_videos,
                       new_videos |-> r.new_videos,
                       walked |-> ~r.err, ins |-> <<>>, rej |-> 0, reqs |-> r.reqs]
             IN  /\ title' = update_metadata(wit[w].chan, RemoteMeta)
                 /\ IF r.err
                    THEN /\ Finish(w, WalkErrResult, Summary(wit[w], l))
                         /\ UNCHANGED wsync
                    ELSE IF r.new_videos = <<>>
                    THEN /\ Finish(w, "ok", Summary(wit[w], l))
                         /\ UNCHANGED wsync
                    ELSE /\ wsync' = [wsync EXCEPT ![w] = l]
                         /\ wpc' = [wpc EXCEPT ![w] = "up_add"]
                         /\ UNCHANGED <<wit, wdl, ilog, errs>>
    /\ UNCHANGED <<queue, pool, nextId, lastMark, video>>
    /\ UNCHANGED <<last_update, service, now, pages, iterVars>>

\* a loop that stops at the first video the table refuses
OnAddError_Stop(rest) == <<>>

\* the Err arm of "match self.add_video": the error is logged and the loop
\* goes on with the videos that remain
OnAddError(rest) == rest

\* The loop "for v in new_videos": one add_video; its Err is logged and the
\* loop goes on.  After the last one Channel::update returns Ok.
up_add(w) ==
    /\ wpc[w] = "up_add"
    /\ LET v == Head(wsync[w].new_videos)
           r == add_video(wit[w].chan, v)
           l == [wsync[w] EXCEPT
                    !.new_videos = IF r.ok THEN Tail(@) ELSE OnAddError(Tail(@)),
                    !.ins = IF r.ok THEN Append(@, v.id) ELSE @,
                    !.rej = IF r.ok THEN @ ELSE @ + 1]
       IN  /\ video' = r.video
           /\ IF l.new_videos = <<>>
              THEN /\ Finish(w, "ok", Summary(wit[w], l))
                   /\ wsync' = [wsync EXCEPT ![w] = NoLocals]
              ELSE /\ wsync' = [wsync EXCEPT ![w] = l]
                   /\ UNCHANGED <<wpc, wit, wdl, ilog, errs>>
    /\ UNCHANGED <<queue, pool, nextId, lastMark>>
    /\ UNCHANGED <<last_update, service, title, now, pages, iterVars>>

(***************************************************************************)
(* SpecSync: Update items executed by the pool                             *)
(***************************************************************************)
\* the videos of all pages of a listing
AllVideos(ps) == Concat(ps, Len(ps))

\* A started pool and a channel never updated.  A Youtube channel has any
\* listing, and the store holds any of the listing's videos, the newest of
\* them as a New row and the older ones as Grabbed rows; a Vimeo channel has
\* no listing here and, its syncs being ignored, no rows.
InitSyncSpec ==
    /\ InitPool
    /\ InitSync
    /\ InitIter
    /\ service \in [Channels -> Service]
    /\ IF \E c \in Channels : service[c] = "Vimeo"
       THEN /\ pages = <<Page(<<>>, 0)>>
            /\ video = <<>>
       ELSE /\ pages \in Sources
            /\ \E K \in SUBSET (1 .. Len(AllVideos(pages))) :
                video = [i \in 1 .. Cardinality(K) |->
                            Row(1, SeqOfSet(K)[i], SeqOfSet(K)[i],
                                IF i = 1 THEN "New" ELSE "Grabbed")]

NextSync ==
    \/ \E c \in Channels : page_refresh(c)
    \/ \E c \in Channels, force \in BOOLEAN, full_update \in BOOLEAN :
            cli_update(c, force, full_update)
    \/ tick
    \/ stop
    \/ stop_returns
    \/ \E w \in Workers : run_recv(w)
    \/ \E w \in Workers : up_check(w)
    \/ \E w \in Workers : up_now(w)
    \/ \E w \in Workers : up_mark(w)
    \/ \E w \in Workers : up_fetch(w)
    \/ \E w \in Workers : up_add(w)

SpecSync == InitSyncSpec /\ [][NextSync]_vars

(***************************************************************************)
(* SpecIter: one sequence of videos() read by a caller                     *)
(***************************************************************************)
\* videos() called on a channel whose listing is any of Sources
InitIterSpec ==
    /\ InitPool
    /\ InitSync
    /\ InitIter
    /\ service = [c \in Channels |-> "Youtube"]
    /\ video = <<>>
    /\ pages \in Sources

\* One call of next() on the sequence.  out records what the call returned
\* and how many page requests the sequence has made when it returns; reqlog
\* records each request's token and whether it succeeded.
iter_next ==
    /\ Len(out) < MaxCalls
    /\ \E fail \in BOOLEAN :
        LET r == videos_next(it, fail)
            reqs == IF r.req
                    THEN Append(reqlog, [token |-> it.cont_token, ok |-> ~fail])
                    ELSE reqlog
        IN  /\ it' = r.it
            /\ reqlog' = reqs
            /\ out' = Append(out, [tag |-> r.yield.tag, v |-> r.yield.v,
                                   nreq |-> Len(reqs)])
    /\ UNCHANGED <<poolVars, video, syncVars, rq, win, mig, channel, del, rt>>

NextIter == iter_next

SpecIter == InitIterSpec /\ [][NextIter]_vars

(***************************************************************************)
(* SpecBusy: more download requests than workers                           *)
(***************************************************************************)
\* The pool has started and as many download requests of video 1 as there
\* are workers have been made before the first worker is scheduled; download
\* requests go on until there are MaxBusy.
InitBusySpec ==
    /\ queue = [i \in 1 .. num_workers |->
                    Download(i, 1, IF i = 1 THEN "New" ELSE "Queued")]
    /\ pool = "running"
    /\ wpc = [w \in Workers |-> "recv"]
    /\ wit = [w \in Workers |-> NoItem]
    /\ wdl = [w \in Workers |-> "none"]
    /\ nextId = num_workers + 1
    /\ ilog = [i \in 1 .. MaxBusy |->
                    IF i <= num_workers
                    THEN [NoLog EXCEPT !.vid = 1, !.with = 1 .. (i - 1)]
                    ELSE NoLog]
    /\ errs = 0
    /\ lastMark = [v \in Videos |-> IF v = 1 THEN num_workers ELSE 0]
    /\ InitSync
    /\ InitIter
    /\ service = [c \in Channels |-> "Youtube"]
    /\ pages = <<Page(<<>>, 0)>>
    /\ video = [v \in Videos |-> Row(1, v, v, IF v = 1 THEN "Queued" ELSE "New")]

NextBusy ==
    \/ \E v \in Videos : page_download_video(v)
    \/ \E w \in Workers : run_recv(w)
    \/ \E w \in Workers : dl_get(w)
    \/ \E w \in Workers : dl_mark(w)
    \/ \E w \in Workers : dl_run(w)
    \/ \E w \in Workers : dl_set(w)

SpecBusy == InitBusySpec /\ [][NextBusy]_vars

\* the workers that hold an item, and the items in execution
Busy == {w \in Workers : wit[w] # NoItem}
Executing == {wit[w].id : w \in Busy}

\* C23  Bounded concurrency: at most num_workers items are in execution;
\* a worker in execution holds one item that no other worker holds and that
\* has not returned, a worker in recv() holds none, and an item that was
\* received and has not returned is still held by a worker (no worker has
\* gone on to another item before finishing it).
BoundedConcurrency ==
    /\ Cardinality(Executing) <= num_workers
    /\ \A w \in Workers :
        /\ wpc[w] \in {"recv", "exited"} <=> wit[w] = NoItem
        /\ wit[w] # NoItem
            => /\ ilog[wit[w].id].done < ilog[wit[w].id].recv
               /\ \A u \in Workers \ {w} : wit[u].id # wit[w].id
    /\ \A i \in Sent :
        /\ ilog[i].recv <= 1 /\ ilog[i].done <= ilog[i].recv
        /\ ilog[i].done < ilog[i].recv => \E w \in Workers : wit[w].id = i

\* every worker executes an item while a further item waits in the channel
BoundedConcurrencyWitness ==
    /\ Cardinality(Executing) = num_workers
    /\ queue # <<>>
    /\ \A w \in Workers : wpc[w] # "recv"

\* C24  Non-blocking enqueue: while the pool is started and not stopped, a
\* download request can always take its step, whatever the length of the
\* channel and whatever the workers are doing; the step appends the item to
\* the channel and changes no worker.
NonBlockingEnqueue ==
    /\ [](pool = "running" /\ nextId \in DOMAIN ilog
            => \A v \in Videos : ENABLED page_download_video(v))
    /\ [][nextId' # nextId
            => /\ Len(queue') = Len(queue) + 1
               /\ queue'[Len(queue')].id = nextId
               /\ \A i \in DOMAIN queue : queue'[i] = queue[i]
               /\ wpc' = wpc /\ wit' = wit /\ wdl' = wdl]_vars

\* the last request was made when the channel was empty and no item had
\* returned: every worker was executing an item
NonBlockingEnqueueWitness ==
    /\ nextId = MaxBusy + 1
    /\ ilog[MaxBusy].with = {}
    /\ \A i \in 1 .. num_workers : ilog[i].recv = 1 /\ ilog[i].done = 0

(***************************************************************************)
(* SpecAdd: Channel::add_video called on any table                         *)
(***************************************************************************)
\* Table video holds any of the videos 1 .. MaxRows, each in any status;
\* rows are in descending video_id order.
InitAddSpec ==
    /\ InitPool
    /\ InitSync
    /\ InitIter
    /\ service = [c \in Channels |-> "Youtube"]
    /\ pages = <<Page(<<>>, 0)>>
    /\ \E K \in SUBSET (1 .. MaxRows) :
         \E st \in [K -> VideoStatus] :
            video = [i \in 1 .. Cardinality(K) |->
                        Row(1, SeqOfSet(K)[i], SeqOfSet(K)[i], st[SeqOfSet(K)[i]])]

\* add_video called with any record: any id, published at any time
add_video_call ==
    /\ \E c \in Channels, id \in 1 .. MaxRows, p \in 1 .. MaxRows :
         video' = add_video(c, [id |-> id, url |-> Url(id), published_at |-> p]).video
    /\ UNCHANGED <<poolVars, syncVars, iterVars>>

NextAdd == add_video_call

SpecAdd == InitAddSpec /\ [][NextAdd]_vars

\* C22  Initial status: a step that creates a video row creates one row, at
\* the end of the table, whose status column reads back as New; the rows
\* there were keep their contents, status included.
InitialStatus ==
    [][Len(video') # Len(video)
       => /\ Len(video') = Len(video) + 1
          /\ from_str(video'[Len(video')].status) = "New"
          /\ \A i \in DOMAIN video : video'[i] = video[i]]_vars

\* a row has been added (it is out of the initial order) after a row that is
\* in a status other than New, and it reads back as New
InitialStatusWitness ==
    \E i, j \in DOMAIN video :
        /\ i < j /\ video[i].video_id < video[j].video_id
        /\ j = Len(video)
        /\ from_str(video[i].status) = "Grabbed"
        /\ from_str(video[j].status) = "New"

(***************************************************************************)
(* SpecWindow: Channel::last_n_video_urls called on any table              *)
(***************************************************************************)
\* the channels that have rows in table video
TableChannels == 1 .. 2

\* Table video holds any of the videos 1 .. MaxRows, each of any of the
\* channels and published at any time.
InitWindowSpec ==
    /\ InitPool
    /\ InitSync
    /\ InitIter
    /\ service = [c \in Channels |-> "Youtube"]
    /\ pages = <<Page(<<>>, 0)>>
    /\ \E K \in SUBSET (1 .. MaxRows) :
         \E ch \in [K -> TableChannels], p \in [K -> 1 .. MaxRows] :
            video = [i \in 1 .. Cardinality(K) |->
                        Row(ch[SeqOfSet(K)[i]], SeqOfSet(K)[i], p[SeqOfSet(K)[i]], "New")]

\* last_n_video_urls called for any channel with any limit
read_window ==
    /\ \E c \in TableChannels, num \in 0 .. MaxRows :
         win' = [chan |-> c, num |-> num, urls |-> last_n_video_urls(c, num)]
    /\ UNCHANGED <<poolVars, video, syncVars, it, out, reqlog, rq, mig, channel, del, rt>>

NextWindow == read_window

SpecWindow == InitWindowSpec /\ [][NextWindow]_vars

\* the rows of channel c, and those whose url is in S
RowsOf(c) == {i \in DOMAIN video : video[i].channel = c}
RowsIn(S) == {i \in DOMAIN video : video[i].url \in S}

\* C33  Dedup window: what last_n_video_urls(c, num) returns are urls of
\* rows of channel c only, as many as the channel has rows but not more
\* than num, and no row of the channel left out was published after a row
\* taken.
DedupWindow ==
    win.chan # 0
    => /\ RowsIn(win.urls) \subseteq RowsOf(win.chan)
       /\ win.urls \subseteq {video[i].url : i \in DOMAIN video}
       /\ Cardinality(win.urls) <= win.num
       /\ Cardinality(win.urls) = win.num
            \/ Cardinality(win.urls) = Cardinality(RowsOf(win.chan))
       /\ \A i \in RowsIn(win.urls), j \in RowsOf(win.chan) \ RowsIn(win.urls) :
            video[i].published_at >= video[j].published_at

\* the limit cut the window short of the channel's rows, the row inserted
\* last was left out, and another channel has a newer row
DedupWindowWitness ==
    /\ win.chan # 0 /\ win.num >= 1
    /\ Cardinality(win.urls) = win.num
    /\ Cardinality(RowsOf(win.chan)) > win.num
    /\ \E j \in RowsOf(win.chan) :
            /\ video[j].url \notin win.urls
            /\ \A i \in RowsOf(win.chan) : i <= j
    /\ \E k \in DOMAIN video :
            /\ video[k].channel # win.chan
            /\ \A i \in RowsOf(win.chan) : video[k].published_at > video[i].published_at

(***************************************************************************)
(* SpecMig: calls of Migrator::to_version and Migrator::upgrade            *)
(***************************************************************************)
\* A Migrator with any migrations of versions 1 .. MaxVersion, after
\* setup(), on a database that has no stored version or any stored version
\* (one written by a later release included).
InitMigSpec ==
    /\ InitPool
    /\ InitSync
    /\ it = NewIter /\ out = <<>> /\ reqlog = <<>> /\ rq = NewQuery /\ win = NoWindow
    /\ channel = [c \in Channels |-> ChannelRow(c)]
    /\ del = [c \in Channels |-> NoDelete]
    /\ rt = [v \in StatusRows |-> NoStatusCall]
    /\ service = [c \in Channels |-> "Youtube"]
    /\ pages = <<Page(<<>>, 0)>>
    /\ video = <<>>
    /\ \E migs \in SUBSET (1 .. MaxVersion), version \in {NULL} \cup (0 .. MaxVersion + 1) :
         /\ migs # {}
         /\ mig = NewMigrator(migs, version)

to_version ==
    /\ mig.ncalls < MaxMigCalls
    /\ \E target \in 0 .. MaxVersion + 1, failAt \in 0 .. MaxVersion :
         mig' = to_version_run(mig, "to_version", target, failAt)
    /\ UNCHANGED <<poolVars, video, syncVars, it, out, reqlog, rq, win, channel, del, rt>>

upgrade ==
    /\ mig.ncalls < MaxMigCalls
    /\ \E failAt \in 0 .. MaxVersion : mig' = upgrade_run(mig, failAt)
    /\ UNCHANGED <<poolVars, video, syncVars, it, out, reqlog, rq, win, channel, del, rt>>

NextMig ==
    \/ to_version
    \/ upgrade

SpecMig == InitMigSpec /\ [][NextMig]_vars

\* C34  Schema version never goes back: a to_version whose target is below
\* the stored version returns Err, runs no migration and leaves the stored
\* version; no call of to_version or upgrade takes the stored version down
\* or back to none.
VersionNeverGoesBack ==
    [][/\ (/\ mig'.ncalls # mig.ncalls /\ mig'.op = "to_version"
           /\ mig.version # NULL /\ mig'.target < mig.version)
          => /\ mig'.ret = "Err"
             /\ mig'.version = mig.version
             /\ mig'.applied = mig.applied
       /\ mig.version # NULL
          => mig'.version # NULL /\ mig'.version >= mig.version]_vars

\* a to_version below the stored version was refused after migrations ran
VersionNeverGoesBackWitness ==
    /\ mig.op = "to_version" /\ mig.ret = "Err"
    /\ mig.cur # NULL /\ mig.target < mig.cur
    /\ mig.applied # <<>>
    /\ mig.version = mig.cur

\* the versions a call made at stored version cur for target has to apply
Due(cur, target) == {v \in mig.migs : (cur = NULL \/ v > cur) /\ v <= target}

\* what the last call applied
Ran(before, after) == SubSeq(after, Len(before) + 1, Len(after))

\* C35  Migration order: a call that goes on to the migrations applies, in
\* ascending order and each once, the versions above the stored version up
\* to the target, all of them when it returns Ok and the first of them up
\* to the failing one when it returns Err; the stored version is then the
\* last one applied, or as before when none was; over all calls no version
\* is applied twice.
MigrationOrder ==
    [][mig'.ncalls # mig.ncalls
       => LET ran == Ran(mig.applied, mig'.applied)
              due == Due(mig.version, mig'.target)
          IN  /\ SubSeq(mig'.applied, 1, Len(mig.applied)) = mig.applied
              /\ \A i, j \in DOMAIN mig'.applied : i < j => mig'.applied[i] < mig'.applied[j]
              /\ {ran[i] : i \in DOMAIN ran} \subseteq due
              /\ \A v \in due, i \in DOMAIN ran : v < ran[i] => \E j \in DOMAIN ran : ran[j] = v
              /\ mig'.ret = "Ok" => {ran[i] : i \in DOMAIN ran} = due
              /\ mig'.version = IF ran = <<>> THEN mig.version ELSE ran[Len(ran)]]_vars

\* three calls have applied three migrations in all, the last call the
\* third of them from the stored version the second had left
MigrationOrderWitness ==
    /\ mig.ncalls = 3 /\ Len(mig.applied) = 3
    /\ mig.ret = "Ok" /\ mig.cur = mig.applied[2]
    /\ mig.version = mig.applied[3]

(***************************************************************************)
(* SpecDelete: Channel::delete on any table                                *)
(***************************************************************************)
\* Table channel holds the channels of TableChannels, table video any of
\* the videos 1 .. MaxRows, each of any of the channels.
InitDeleteSpec ==
    /\ InitPool
    /\ InitSync
    /\ it = NewIter /\ out = <<>> /\ reqlog = <<>> /\ rq = NewQuery /\ win = NoWindow
    /\ mig = NewMigrator(1 .. MaxVersion, NULL)
    /\ service = [c \in Channels |-> "Youtube"]
    /\ pages = <<Page(<<>>, 0)>>
    /\ channel = [c \in TableChannels |-> ChannelRow(c)]
    /\ del = [c \in TableChannels |-> NoDelete]
    /\ rt = [v \in StatusRows |-> NoStatusCall]
    /\ \E K \in SUBSET (1 .. MaxRows) :
         \E ch \in [K -> TableChannels], st \in [K -> {"New", "Grabbed"}] :
            video = [i \in 1 .. Cardinality(K) |->
                        Row(ch[SeqOfSet(K)[i]], SeqOfSet(K)[i], SeqOfSet(K)[i],
                            st[SeqOfSet(K)[i]])]

\* Channel::delete, its first statement
delete_videos(c) ==
    /\ c \in DOMAIN channel
    /\ del[c].pc = "none"
    /\ video' = delete_from_video(c)
    /\ del' = [del EXCEPT ![c] = [pc |-> "videos",
                                  removed |-> Len(video) - Len(delete_from_video(c))]]
    /\ UNCHANGED <<poolVars, syncVars, it, out, reqlog, rq, win, mig, channel, rt>>

\* Channel::delete, its second statement and return
delete_channel(c) ==
    /\ del[c].pc = "videos"
    /\ channel' = delete_from_channel(c)
    /\ del' = [del EXCEPT ![c].pc = "done"]
    /\ UNCHANGED <<poolVars, video, syncVars, it, out, reqlog, rq, win, mig, rt>>

NextDelete ==
    \/ \E c \in TableChannels : delete_videos(c)
    \/ \E c \in TableChannels : delete_channel(c)

SpecDelete == InitDeleteSpec /\ [][NextDelete]_vars

\* the rows of table video that are not of channel c, in rowid order
VideosNotOf(c) == SelectSeq(video, LAMBDA r : r.channel # c)

\* C36  Channel delete frame: when delete(c) has returned, table channel has
\* no row c and table video no row of channel c; no step of delete(c)
\* changes a row of another channel or a video of another channel.
ChannelDeleteFrame ==
    /\ [](\A c \in TableChannels :
            del[c].pc = "done"
            => /\ c \notin DOMAIN channel
               /\ \A i \in DOMAIN video : video[i].channel # c)
    /\ [][\A c \in TableChannels :
            del'[c] # del[c]
            => /\ VideosNotOf(c)' = VideosNotOf(c)
               /\ \A d \in DOMAIN channel \ {c} :
                    d \in DOMAIN channel' /\ channel'[d] = channel[d]]_vars

\* delete has returned for a channel that had videos, and another channel
\* and a video of it are in the tables
ChannelDeleteFrameWitness ==
    \E c \in TableChannels :
        /\ del[c].pc = "done" /\ del[c].removed >= 1
        /\ \E d \in DOMAIN channel, i \in DOMAIN video : video[i].channel = d

(***************************************************************************)
(* SpecWeb: the pool of the web server, which is never stopped             *)
(***************************************************************************)
\* web.rs main: the pool is started and handed to the request handlers; the
\* store holds the videos of the channel but the newest of its listing
InitWebSpec ==
    /\ InitPool
    /\ InitSync
    /\ InitIter
    /\ service = [c \in Channels |-> "Youtube"]
    /\ pages = MkPages(<<NumVideos + 1>>, 1, NumVideos + 1)
    /\ \E st \in [Videos -> {"New", "GrabError"}] :
            video = [v \in Videos |-> Row(1, v, v, st[v])]

\* the handlers enqueue, the workers execute; nothing calls stop()
NextWeb ==
    \/ \E v \in Videos : page_download_video(v)
    \/ \E v \in Videos : page_ignore_video(v)
    \/ \E c \in Channels : page_refresh(c)
    \/ \E w \in Workers : run_recv(w)
    \/ \E w \in Workers : dl_get(w)
    \/ \E w \in Workers : dl_mark(w)
    \/ \E w \in Workers : dl_run(w)
    \/ \E w \in Workers : dl_set(w)
    \/ \E w \in Workers : up_check(w)
    \/ \E w \in Workers : up_now(w)
    \/ \E w \in Workers : up_mark(w)
    \/ \E w \in Workers : up_fetch(w)
    \/ \E w \in Workers : up_add(w)

\* The threads of the pool are scheduled: a worker that can receive does,
\* and a worker inside an item takes its next step (download() and the
\* requests to the source return).
SchedulingWeb ==
    /\ WF_vars(\E w \in Workers : run_recv(w))
    /\ \A w \in Workers :
        /\ WF_vars(dl_get(w) \/ dl_mark(w) \/ dl_run(w) \/ dl_set(w))
        /\ WF_vars(up_check(w) \/ up_now(w) \/ up_mark(w) \/ up_fetch(w) \/ up_add(w))

SpecWeb == InitWebSpec /\ [][NextWeb]_vars /\ SchedulingWeb

\* some worker waits on the receiver
Idle == \E w \in Workers : wpc[w] = "recv"

\* C39  Liveness without stop: on a pool that is never stopped, every item
\* sent is eventually received and executed to its end, the workers being
\* scheduled and every item's execution terminating; and while an item is
\* in the channel and a worker waits on the receiver, a receive is possible
\* whatever the other workers are executing.
LivenessWithoutStop ==
    /\ [](pool = "running")
    /\ \A i \in ItemIds :
            (i \in Sent) ~> (ilog[i].recv = 1 /\ ilog[i].done = 1)
    /\ []((queue # <<>> /\ Idle) => ENABLED (\E w \in Workers : run_recv(w)))

\* two items were sent and both were executed to their end, the second a
\* sync that sent requests to the source
LivenessWithoutStopWitness ==
    /\ pool = "running"
    /\ nextId = 3
    /\ ilog[2].sync.reqs >= 1
    /\ ilog[1].done = 1
    /\ ilog[2].done = 1
    /\ queue = <<>>

(***************************************************************************)
(* SpecStatus: statuses written to and read from the status column         *)
(***************************************************************************)
\* A table whose status column holds any text: a code, or a text that is no
\* code (rows written by something other than set_status).
InitStatusSpec ==
    /\ InitPool
    /\ InitSync
    /\ InitIter
    /\ service = [c \in Channels |-> "Youtube"]
    /\ pages = <<Page(<<>>, 0)>>
    /\ \E tx \in [StatusRows -> Texts] :
            video = [v \in StatusRows |-> [Row(1, v, v, "New") EXCEPT !.status = tx[v]]]

\* DBVideoInfo::set_status(status) on row v
write_status(v, s) ==
    /\ video' = set_status(v, s)
    /\ rt' = [rt EXCEPT ![v] = [written |-> s, read |-> "none"]]
    /\ UNCHANGED <<poolVars, syncVars, it, out, reqlog, rq, win, mig, channel, del>>

\* row v is selected and its status column converted
read_status(v) ==
    /\ rt' = [rt EXCEPT ![v].read = column_result(video[v].status)]
    /\ UNCHANGED <<poolVars, video, syncVars, it, out, reqlog, rq, win, mig, channel, del>>

NextStatus ==
    \/ \E v \in StatusRows, s \in VideoStatus : write_status(v, s)
    \/ \E v \in StatusRows : read_status(v)

SpecStatus == InitStatusSpec /\ [][NextStatus]_vars

\* C40  Status code round trip: from_str(as_str(s)) = s for each of the six
\* statuses, the six codes are NE, QU, DL, GR, GE, IG and pairwise distinct,
\* from_str of a text that is no code is an error, and a row read after a
\* status was written to it gives that status (a row never written gives
\* the status of its code, or an error if its text is no code).
StatusRoundTrip ==
    /\ \A s \in VideoStatus : from_str(as_str(s)) = s
    /\ Codes = {"NE", "QU", "DL", "GR", "GE", "IG"}
    /\ \A s, u \in VideoStatus : s # u => as_str(s) # as_str(u)
    /\ \A c \in OtherTexts : from_str(c) = "Err"
    /\ \A v \in StatusRows :
            rt[v].read # "none" =>
                /\ rt[v].written # "none" => rt[v].read = rt[v].written
                /\ video[v].status \in Codes =>
                        /\ rt[v].read \in VideoStatus
                        /\ as_str(rt[v].read) = video[v].status
                /\ video[v].status \notin Codes => rt[v].read = "Err"

\* GrabError was written to a row and read back, and a row whose text is
\* no code was read
StatusRoundTripWitness ==
    \E v, u \in StatusRows :
        /\ rt[v].written = "GrabError" /\ rt[v].read = "GrabError"
        /\ video[u].status \in OtherTexts /\ rt[u].read = "Err"

(***************************************************************************)
(* SpecReq: the fetches of one YoutubeQuery                                *)
(***************************************************************************)
InitReqSpec ==
    /\ InitPool
    /\ InitSync
    /\ InitIter
    /\ service = [c \in Channels |-> "Youtube"]
    /\ video = <<>>
    /\ pages = <<Page(<<>>, 0)>>

\* get_metadata is called, or the closure of videos() finds nothing buffered
rq_call ==
    /\ rq.pc \in {"idle", "done"}
    /\ rq.nfetch < MaxFetches
    /\ \E kind \in {"metadata", "page"} :
         rq' = [NewQuery EXCEPT !.budget = rq.budget, !.pc = "check",
                                !.kind = kind, !.nfetch = rq.nfetch + 1]
    /\ UNCHANGED <<poolVars, video, syncVars, it, out, reqlog, win, mig, channel, del, rt>>

\* match self.rate_limit.borrow_mut().check(), with the sleep of its Err arm
rq_check ==
    /\ rq.pc = "check"
    /\ LET c == rate_limit_check(rq.budget)
       IN  rq' = [rq EXCEPT !.budget = c.budget,
                            !.limited = ~c.ok,
                            !.granted = IF c.ok THEN 1 ELSE 0,
                            !.slept = IF c.ok THEN 0 ELSE Backoff(rq.kind),
                            !.pc = "request"]
    /\ UNCHANGED <<poolVars, video, syncVars, it, out, reqlog, win, mig, channel, del, rt>>

\* request_data: subreq sends one request, which succeeds or fails
rq_subreq ==
    /\ rq.pc = "request"
    /\ \E ok \in BOOLEAN :
         LET t == request_data_turn(rq.tries, ok)
         IN  rq' = [rq EXCEPT !.sent = @ + 1,
                              !.last = IF ok THEN "Ok" ELSE "Err",
                              !.tries = t.tries,
                              !.ret = t.ret,
                              !.pc = IF t.ret = "none" THEN "request" ELSE "done"]
    /\ UNCHANGED <<poolVars, video, syncVars, it, out, reqlog, win, mig, channel, del, rt>>

\* time passes: the limiter frees a cell
replenish ==
    /\ rq.budget < rate_cells
    /\ rq' = [rq EXCEPT !.budget = @ + 1]
    /\ UNCHANGED <<poolVars, video, syncVars, it, out, reqlog, win, mig, channel, del, rt>>

NextReq ==
    \/ rq_call
    \/ rq_check
    \/ rq_subreq
    \/ replenish

SpecReq == InitReqSpec /\ [][NextReq]_vars

\* C25  Retry bound: a fetch sends at most 4 requests (the first and 3
\* retries); it returns Ok with the first request that succeeds and Err
\* with the 4th that fails, and sends nothing after it has returned.
RetryBound ==
    /\ rq.sent <= 1 + 3
    /\ rq.ret = "Ok" => rq.last = "Ok"
    /\ rq.ret = "Err" => rq.last = "Err" /\ rq.sent = 1 + 3
    /\ rq.pc = "request" => rq.last # "Ok" /\ rq.sent < 1 + 3

\* C29  Rate-limit backoff: a fetch whose check() found the budget
\* exhausted has slept 1 s (metadata) or 10 s (page) and is sending its
\* request or has sent it, a fetch that was granted a cell has not slept;
\* no fetch returns without having sent a request, and what it returns is
\* how its last request ended, so Err comes from a failed request only.
RateLimitBackoff ==
    /\ rq.limited
        => /\ rq.slept = IF rq.kind = "metadata" THEN 1 ELSE 10
           /\ rq.pc \in {"request", "done"}
    /\ (rq.pc \in {"request", "done"} /\ ~rq.limited) => rq.slept = 0
    /\ rq.pc = "done" => rq.sent >= 1 /\ rq.ret = rq.last

\* a page fetch that found the budget exhausted has returned the page
RateLimitBackoffWitness ==
    /\ rq.kind = "page" /\ rq.limited /\ rq.pc = "done" /\ rq.ret = "Ok"
    /\ rq.sent = 1

\* C30  Request rate bound: a fetch sends no more requests than the cells
\* the limiter granted it.
RequestRateBound == rq.sent <= rq.granted

(***************************************************************************)
(* Properties of the sequence of videos() (SpecIter)                       *)
(***************************************************************************)
(***************************************************************************)
\* the videos the first n calls returned
RECURSIVE Yielded(_)
Yielded(n) == IF n = 0 THEN <<>> ELSE Yielded(n - 1) \o <<out[n].v>>

\* the requests made by the time call n returned, 0 before the first call
ReqsAt(n) == IF n = 0 THEN 0 ELSE out[n].nreq

\* C5  Pagination termination: when the source answers every request, the
\* calls up to the first end of sequence yield exactly the videos of the
\* pages up to the end of the listing, in order, each as Ok.
PaginationTermination ==
    \A n \in DOMAIN out :
        (/\ out[n].tag = "None"
         /\ \A m \in 1 .. (n - 1) : out[m].tag = "Ok")
        => Yielded(n - 1) = Listing(pages)

\* C10  Error ends the sequence: a call yields Err exactly when the page
\* request it made failed, and every call after an Err reports the end of
\* the sequence and makes no request.
ErrorEndsSequence ==
    \A n \in DOMAIN out :
        /\ out[n].tag = "Err"
            <=> (ReqsAt(n) > ReqsAt(n - 1) /\ ~reqlog[ReqsAt(n)].ok)
        /\ out[n].tag = "Err"
            => \A m \in (n + 1) .. Len(out) :
                    out[m].tag = "None" /\ out[m].nreq = out[n].nreq

\* the request for the second page failed after a video of the first page
\* was yielded, and next() was called again afterwards
ErrorEndsSequenceWitness ==
    \E n \in DOMAIN out :
        /\ n > 1
        /\ out[1].tag = "Ok"
        /\ out[n].tag = "Err"
        /\ out[n].nreq = 2
        /\ reqlog[2].token # 0
        /\ Len(out) > n

\* C26  Ended sequences stay ended: after a call that reported the end of
\* the sequence, every call reports the end and makes no request.
EndedStaysEnded ==
    \A n \in DOMAIN out :
        out[n].tag = "None"
        => \A m \in (n + 1) .. Len(out) :
                out[m].tag = "None" /\ out[m].nreq = out[n].nreq

\* the page that answered request k
Served(k) == pages[IF reqlog[k].token = 0 THEN 1 ELSE reqlog[k].token]

\* the videos of the pages that the first r requests fetched
RECURSIVE Fetched(_)
Fetched(r) ==
    IF r = 0 THEN <<>>
    ELSE Fetched(r - 1) \o (IF reqlog[r].ok THEN Served(r).videos ELSE <<>>)

\* the videos the first n calls yielded as Ok
RECURSIVE OkYielded(_)
OkYielded(n) ==
    IF n = 0 THEN <<>>
    ELSE OkYielded(n - 1) \o (IF out[n].tag = "Ok" THEN <<out[n].v>> ELSE <<>>)

\* C27  Continuation order: the first request carries no token and each
\* later one the token of the page before it; the videos yielded are, in
\* order, the first videos of the pages fetched, and when a call reports
\* the end of the sequence every video of the pages fetched has been
\* yielded, once.
ContinuationOrder ==
    /\ \A k \in DOMAIN reqlog :
            reqlog[k].token = IF k = 1 THEN 0 ELSE Served(k - 1).continuation
    /\ \A n \in DOMAIN out :
        /\ Len(OkYielded(n)) <= Len(Fetched(ReqsAt(n)))
        /\ OkYielded(n) = SubSeq(Fetched(ReqsAt(n)), 1, Len(OkYielded(n)))
        /\ out[n].tag = "None" => OkYielded(n) = Fetched(ReqsAt(n))

(***************************************************************************)
(* Properties of the channel sync (SpecSync)                               *)
(***************************************************************************)
\* the position of the first video of listing L whose url is in S, 0 if none
FirstKnown(L, S) ==
    IF \E k \in DOMAIN L : L[k].url \in S
    THEN CHOOSE k \in DOMAIN L :
            L[k].url \in S /\ \A j \in 1 .. (k - 1) : L[j].url \notin S
    ELSE 0

\* item i is the only work item sent, an Update item whose Channel::update
\* has returned after walking the source without an error
LoneSync(i) ==
    /\ nextId = 2
    /\ i = 1
    /\ ilog[i].done = 1
    /\ ilog[i].sync.walked

\* the execution of item i returned Err: its walk met a failed page request
Failed(i) == ilog[i].done = 1 /\ ~ilog[i].sync.walked /\ ilog[i].sync.reqs > 0

\* C13  Item failure isolation: the step in which an item's execution
\* returns Err puts that worker back at recv() and leaves every other
\* worker where it was; no worker has exited while the pool runs; and when
\* stop() has returned every item sent, before or after a failing one, has
\* been executed once.
FailureIsolation ==
    /\ [][errs' # errs =>
            /\ errs' = errs + 1
            /\ \E w \in Workers :
                /\ wpc[w] = "up_fetch" /\ wpc'[w] = "recv"
                /\ \A u \in Workers \ {w} : wpc'[u] = wpc[u]]_vars
    /\ [](pool = "running" => \A w \in Workers : wpc[w] # "exited")
    /\ [](pool = "stopped" => \A i \in Sent : ilog[i].done = 1 /\ ilog[i].recv = 1)

\* the first item's execution returned Err, and the item sent after it
\* walked the source and inserted a video
FailureIsolationWitness ==
    /\ nextId = 3
    /\ errs = 1
    /\ Failed(1)
    /\ ilog[2].done = 1
    /\ ilog[2].sync.walked
    /\ Len(ilog[2].sync.ins) > 0

\* worker w leaves the staleness check of its Update item in this step
Checks(w) == wpc[w] = "up_check" /\ wpc'[w] # "up_check"

\* the channel has a last_update no more than the interval in the past
Fresh(c) == last_update[c] # NULL /\ now - last_update[c] <= update_interval

\* C14  Staleness skip: the check of an Update item without force, of a
\* channel updated no more than 60 minutes ago, ends the item with Ok:
\* Channel::update is not called and no request is made, and last_update,
\* the stored metadata and the rows of table video stay as they are.
StalenessSkip ==
    [][\A w \in Workers :
        (Checks(w) /\ ~wit[w].force /\ Fresh(wit[w].chan))
        => /\ wpc'[w] = "recv"
           /\ errs' = errs
           /\ ilog'[wit[w].id].done = ilog[wit[w].id].done + 1
           /\ ilog'[wit[w].id].sync = NoSync
           /\ last_update' = last_update
           /\ title' = title
           /\ video' = video]_vars

\* an item has returned without calling Channel::update, the channel
\* having been updated exactly 60 minutes before
StalenessSkipWitness ==
    /\ \E i \in Sent : ilog[i].done = 1 /\ ~ilog[i].sync.ran
    /\ \A c \in Channels : last_update[c] = 0
    /\ now = update_interval

MarkAttemptedFirst ==
    /\ [](\A w \in Workers :
            /\ wpc[w] \in {"up_check", "up_now", "up_mark"}
                => ilog[wit[w].id].sync = NoSync
            /\ wpc[w] \in {"up_fetch", "up_add"} => last_update[wit[w].chan] # NULL)
    /\ [][\A w \in Workers :
            /\ (wpc[w] = "up_mark" /\ wpc'[w] # "up_mark")
                => last_update'[wit[w].chan] = wsync[w].now /\ ilog' = ilog
            /\ (wpc[w] = "up_fetch" /\ wpc'[w] # "up_fetch")
                => last_update' = last_update]_vars
    /\ [](\A i \in Sent : ilog[i].sync.ran => \A c \in Channels : last_update[c] # NULL)

\* a sync has returned Err from a failed page request and last_update holds
\* the time it was attempted
MarkAttemptedFirstWitness ==
    /\ \E i \in Sent : Failed(i)
    /\ \A c \in Channels : last_update[c] = now
    /\ now > 0

\* C17  last_update monotonicity: no step takes a channel's last_update
\* from a time to an earlier one or back to none.
LastUpdateMonotone ==
    [][\A c \in Channels :
        last_update[c] # NULL
        => last_update'[c] # NULL /\ last_update'[c] >= last_update[c]]_vars

\* C18  Metadata failure: the step in which get_metadata fails ends the
\* item with Ok, having requested no page and inserted no video; it leaves
\* the stored title and thumbnail, the rows of table video, last_update and
\* every other worker as they are.
MetadataFailure ==
    [][\A w \in Workers :
        (wpc[w] = "up_fetch" /\ wpc'[w] = "recv"
            /\ ilog'[wit[w].id].sync.meta = "err")
        => /\ errs' = errs
           /\ ilog'[wit[w].id].done = ilog[wit[w].id].done + 1
           /\ ilog'[wit[w].id].sync.reqs = 0
           /\ ilog'[wit[w].id].sync.ins = <<>>
           /\ title' = title
           /\ video' = video
           /\ last_update' = last_update
           /\ \A u \in Workers \ {w} :
                wpc'[u] = wpc[u] /\ wit'[u] = wit[u] /\ wsync'[u] = wsync[u]]_vars

\* the metadata request of one sync failed, another sync has walked the
\* source and inserted, and no item has returned Err
MetadataFailureWitness ==
    \E i, j \in Sent :
        /\ ilog[i].done = 1 /\ ilog[i].sync.meta = "err"
        /\ ilog[j].done = 1 /\ ilog[j].sync.walked /\ Len(ilog[j].sync.ins) > 0
        /\ errs = 0

\* C21  Unsupported service: the step of Channel::update that follows
\* set_last_update, for a channel whose service is Vimeo, ends the item with
\* Ok (nothing logged as an error, the worker back in recv()), has sent no
\* request to a source and has inserted no video; title and rows are as
\* before.
UnsupportedService ==
    [][\A w \in Workers :
        (wpc[w] = "up_fetch" /\ wpc'[w] # "up_fetch"
            /\ service[wit[w].chan] = "Vimeo")
        => /\ wpc'[w] = "recv"
           /\ errs' = errs
           /\ ilog'[wit[w].id].done = ilog[wit[w].id].done + 1
           /\ ilog'[wit[w].id].sync.ran
           /\ ilog'[wit[w].id].sync.meta = "none"
           /\ ilog'[wit[w].id].sync.reqs = 0
           /\ ilog'[wit[w].id].sync.ins = <<>>
           /\ video' = video
           /\ title' = title]_vars

\* a sync of a Vimeo channel has run to its end and no item returned Err
UnsupportedServiceWitness ==
    \E i \in Sent :
        /\ ilog[i].done = 1 /\ ilog[i].sync.ran
        /\ \A c \in Channels : service[c] = "Vimeo"
        /\ errs = 0

\* C31  Per-video insertion failure does not abort: the step of the insert
\* loop whose add_video fails logs no Err for the item and changes no row;
\* with videos left the worker stays in the loop with exactly those left,
\* with none left the item ends with Ok.
InsertFailureGoesOn ==
    [][\A w \in Workers :
        (/\ wpc[w] = "up_add" /\ wsync'[w] # wsync[w]
         /\ ~add_video(wit[w].chan, Head(wsync[w].new_videos)).ok)
        => /\ errs' = errs
           /\ video' = video
           /\ IF Len(wsync[w].new_videos) > 1
              THEN /\ wpc'[w] = "up_add" /\ wit'[w] = wit[w]
                   /\ wsync'[w].new_videos = Tail(wsync[w].new_videos)
                   /\ wsync'[w].rej = wsync[w].rej + 1
                   /\ wsync'[w].ins = wsync[w].ins
              ELSE /\ wpc'[w] = "recv"
                   /\ ilog'[wit[w].id].done = ilog[wit[w].id].done + 1
                   /\ ilog'[wit[w].id].sync.rej = wsync[w].rej + 1]_vars

\* a full sync has returned Ok having been refused a video it knew and
\* having inserted an older one afterwards
InsertFailureGoesOnWitness ==
    \E i \in Sent :
        /\ ilog[i].done = 1 /\ ilog[i].sync.full_update
        /\ ilog[i].sync.rej >= 1
        /\ \E k \in DOMAIN ilog[i].sync.ins, u \in ilog[i].sync.seen :
                u[2] > ilog[i].sync.ins[k]
        /\ errs = 0

\* C32  Sync only inserts: no step of a sync removes a row of table video
\* or changes one, its status included; a step changes the table at most by
\* one new row at its end.
SyncOnlyInserts ==
    [][/\ \A i \in DOMAIN video : i \in DOMAIN video' /\ video'[i] = video[i]
       /\ Len(video') <= Len(video) + 1]_vars

\* a sync was refused a video and inserted another while a row stored as
\* Grabbed is in the table
SyncOnlyInsertsWitness ==
    /\ \E i \in Sent :
        /\ ilog[i].done = 1
        /\ ilog[i].sync.rej >= 1 /\ Len(ilog[i].sync.ins) >= 1
    /\ \E r \in DOMAIN video : from_str(video[r].status) = "Grabbed"

\* C37  Page failure persists nothing: the step in which a page request of
\* the walk fails ends the item with Err, logged by the worker, and the sync
\* has inserted nothing: table video is as before, the videos read from the
\* pages before the failing one included.
PageFailurePersistsNothing ==
    [][\A w \in Workers :
        (/\ wpc[w] = "up_fetch" /\ wpc'[w] = "recv"
         /\ ilog'[wit[w].id].sync.meta = "ok"
         /\ ~ilog'[wit[w].id].sync.walked)
        => /\ errs' = errs + 1
           /\ ilog'[wit[w].id].done = ilog[wit[w].id].done + 1
           /\ ilog'[wit[w].id].sync.ins = <<>>
           /\ ilog'[wit[w].id].sync.rej = 0
           /\ video' = video
           /\ wsync'[w] = NoLocals]_vars

\* the request for the second page of a sync failed, after the first page
\* was read to its end, and table video is empty
PageFailurePersistsNothingWitness ==
    \E i \in Sent :
        /\ ilog[i].done = 1 /\ ilog[i].sync.meta = "ok" /\ ~ilog[i].sync.walked
        /\ ilog[i].sync.reqs = 2
        /\ video = <<>>
        /\ errs = 1

\* worker w is in the insert loop of a sync that was not forced: it has
\* sent its requests to the source
HasFetched(w) ==
    /\ wpc[w] = "up_add" /\ ~forced(wit[w])
    /\ wsync[w].reqs >= 1

Persisted(v) == \E r \in DOMAIN video : video[r].url = v.url

\* C19  No lost work: when a sync without full_update has walked the
\* source and returned, no video of the listing is without a row while a
\* newer video of the listing has one.
NoLostWork ==
    \A i \in Sent :
        LET L == Listing(pages)
        IN  (LoneSync(i) /\ ~ilog[i].sync.full_update)
            => \A j, k \in DOMAIN L :
                    (j < k /\ Persisted(L[j])) => Persisted(L[k])

\* C6  Early stop: a sync with full_update = false whose window holds the
\* url of the k-th video of the listing (and of no earlier one) inserts
\* exactly the first k-1 videos and requests no page after the one that
\* holds position k.
EarlyStop ==
    \A i \in Sent :
        LET s == ilog[i].sync
            L == Listing(pages)
            k == FirstKnown(L, s.seen)
        IN  (LoneSync(i) /\ ~s.full_update /\ k > 0)
            => /\ s.ins = [j \in 1 .. (k - 1) |-> L[j].id]
               /\ s.reqs <= PageOf(pages, k, 1)

\* C7  Full update: a sync with full_update = true requests every page up
\* to the end of the listing and tries to insert every video of it, the
\* inserts of known urls are rejected, and afterwards every url of the
\* listing is in exactly one row.
FullUpdate ==
    \A i \in Sent :
        LET s == ilog[i].sync
            L == Listing(pages)
        IN  (LoneSync(i) /\ s.full_update)
            => /\ s.reqs = EndPage(pages)
               /\ Len(s.ins) + s.rej = Len(L)
               /\ \A k \in DOMAIN L :
                    Cardinality({r \in DOMAIN video : video[r].url = L[k].url}) = 1

\* C8  URL uniqueness: no two rows of table video have the same url.
UrlUnique ==
    \A r1, r2 \in DOMAIN video : video[r1].url = video[r2].url => r1 = r2

\* two syncs without full_update have both walked the source and returned,
\* and an insert of one of them was rejected: they ran at the same time
UrlUniqueWitness ==
    \E i, j \in Sent :
        /\ i # j
        /\ ilog[i].done = 1 /\ ilog[i].sync.walked /\ ~ilog[i].sync.full_update
        /\ ilog[j].done = 1 /\ ilog[j].sync.walked /\ ~ilog[j].sync.full_update
        /\ Len(ilog[i].sync.ins) > 0
        /\ ilog[j].sync.rej > 0
====
